---- MODULE Spec2Model ----
(***************************************************************************)
(* Model of aioredis/commands/sorted_set.py: SortedSetCommandsMixin and    *)
(* the reply converters int_or_float / pairs_int_or_float.                 *)
(*                                                                         *)
(* A caller invokes one method of the mixin at a time.  The method         *)
(* validates its arguments, encodes them and hands at most one command to  *)
(* the executor (_conn.execute), which returns a future.  Futures are      *)
(* resolved by the executor in submission order; a future wrapped by       *)
(* wait_convert delivers the converted reply.                              *)
(***************************************************************************)
EXTENDS Integers, Sequences, FiniteSets, TLC

VARIABLES pc, call, outcome, sent, futures, reply

vars == <<pc, call, outcome, sent, futures, reply>>

---------------------------------------------------------------------------
(* Bounds of the model. *)

\* how many futures the caller leaves un-awaited at once
MaxInflight == 2
\* longest list reply handed to pairs_int_or_float
MaxReplyLen == 4
\* longest *pairs / *members / *keys tail of zadd, zrem, z*store
MaxVarArgs == 2

---------------------------------------------------------------------------
(* Python values.  t is the Python type; n the numeric payload (an int's   *)
(* value, a finite float's value in tenths, the sign of an infinity);      *)
(* s the characters of a bytes object or the name of a raised exception;   *)
(* items the elements of a list or tuple.                                  *)

PyVal(t, n, s, items) == [t |-> t, n |-> n, s |-> s, items |-> items]

None == PyVal("None", 0, <<>>, <<>>)
PyInt(n) == PyVal("int", n, <<>>, <<>>)
PyBool(b) == PyVal("bool", IF b THEN 1 ELSE 0, <<>>, <<>>)
PyFloat(tenths) == PyVal("float", tenths, <<>>, <<>>)
PosInf == PyVal("inf", 1, <<>>, <<>>)
NegInf == PyVal("inf", -1, <<>>, <<>>)
NaN == PyVal("nan", 0, <<>>, <<>>)
\* an int too large to convert to a float, such as 10**400
BigInt == PyVal("bigint", 1, <<>>, <<>>)
Bytes(s) == PyVal("bytes", 0, s, <<>>)
PyList(items) == PyVal("list", 0, <<>>, items)
PyTuple(items) == PyVal("tuple", 0, <<>>, items)
Raised(e) == PyVal("error", 0, <<e>>, <<>>)

\* isinstance(x, int): bool is a subclass of int
IsInt(x) == x.t \in {"int", "bool", "bigint"}
\* isinstance(x, (int, float))
IsIntOrFloat(x) == x.t \in {"int", "bool", "bigint", "float", "inf", "nan"}
\* isinstance(x, bytes)
IsBytes(x) == x.t = "bytes"
\* math.isinf(x), for x a float or an int that fits a float
IsInf(x) == x.t = "inf"

\* The position of a number on the real line, in tenths; every finite
\* value of the model lies strictly between the bigint and the infinities.
Magnitude(x) ==
    CASE x.t \in {"int", "bool"} -> 10 * x.n
      [] x.t = "float" -> x.n
      [] x.t = "bigint" -> 1000000 * x.n
      [] x.t = "inf" -> 2000000 * x.n
      [] OTHER -> 0

\* Python's a > b on numbers: every comparison with a nan is False
PyGt(a, b) == a.t # "nan" /\ b.t # "nan" /\ Magnitude(a) > Magnitude(b)

Digits == <<"0", "1", "2", "3", "4", "5", "6", "7", "8", "9">>

RECURSIVE NatStr(_)
NatStr(n) ==
    IF n < 10 THEN <<Digits[n + 1]>>
    ELSE NatStr(n \div 10) \o <<Digits[(n % 10) + 1]>>

Abs(n) == IF n < 0 THEN -n ELSE n

\* str(x) for a number x
PyStr(x) ==
    CASE x.t = "int" -> (IF x.n < 0 THEN <<"-">> ELSE <<>>) \o NatStr(Abs(x.n))
      [] x.t = "bool" ->
            IF x.n = 1 THEN <<"T", "r", "u", "e">>
            ELSE <<"F", "a", "l", "s", "e">>
      [] x.t = "float" ->
            (IF x.n < 0 THEN <<"-">> ELSE <<>>)
            \o NatStr(Abs(x.n) \div 10) \o <<".">> \o <<Digits[(Abs(x.n) % 10) + 1]>>
      [] x.t = "inf" -> (IF x.n < 0 THEN <<"-">> ELSE <<>>) \o <<"i", "n", "f">>
      [] x.t = "nan" -> <<"n", "a", "n">>
      [] OTHER -> <<"1", "0", "*", "*", "4", "0", "0">>

---------------------------------------------------------------------------
(* What a method call does: the exception it raises or "pending", the      *)
(* commands it handed to _conn.execute, and the converter wait_convert     *)
(* attached to the returned future.                                        *)

Raise(e) == [outcome |-> e, sent |-> <<>>, conv |-> "none"]
Execute(cmd, conv) == [outcome |-> "pending", sent |-> <<cmd>>, conv |-> conv]

Tok(name) == Bytes(<<name>>)


\* Variant: the math.isinf test is left out, so an exclusive infinity is
\* prefixed like any other number.
ScoreBound_NoInfCheck(v, include) ==
    IF include THEN v
    ELSE IF v.t = "bigint" THEN Raised("OverflowError")
    ELSE Bytes(<<"(">> \o PyStr(v))

\* "if not include and not math.isinf(v): v = ("(" + str(v)).encode('utf-8')";
\* math.isinf raises OverflowError on an int that does not fit a float
ScoreBound(v, include) ==
    IF include THEN v
    ELSE IF v.t = "bigint" THEN Raised("OverflowError")
    ELSE IF IsInf(v) THEN v
    ELSE Bytes(<<"(">> \o PyStr(v))

\* "if not min == b'-': min = (b'[' if include_min else b'(') + min"
LexMin(min, include_min) ==
    IF min = Bytes(<<"-">>) THEN min
    ELSE Bytes((IF include_min THEN <<"[">> ELSE <<"(">>) \o min.s)

\* "if not max == b'+': max = (b'[' if include_max else b'(') + max"
LexMax(max, include_max) ==
    IF max = Bytes(<<"+">>) THEN max
    ELSE Bytes((IF include_max THEN <<"[">> ELSE <<"(">>) \o max.s)

\* "args.extend([b'LIMIT', offset, count])" when both are given
LimitArgs(offset, count) ==
    IF offset # None /\ count # None THEN <<Tok("LIMIT"), offset, count>> ELSE <<>>

\* "args = [b'WITHSCORES']" when withscores
WithScoresArgs(withscores) == IF withscores THEN <<Tok("WITHSCORES")>> ELSE <<>>

\* the scores of *pairs: the items at even indices, counting from 0
PairScores(pairs) == {pairs[i] : i \in {j \in 1..Len(pairs) : j % 2 = 1}}

zadd(key, score, member, pairs) ==
    IF key = None THEN Raise("TypeError")
    ELSE IF ~IsIntOrFloat(score) THEN Raise("TypeError")
    ELSE IF Len(pairs) % 2 # 0 THEN Raise("TypeError")
    ELSE IF \E s \in PairScores(pairs) : ~IsIntOrFloat(s) THEN Raise("TypeError")
    ELSE Execute(<<Tok("ZADD"), key, score, member>> \o pairs, "none")

zcard(key) ==
    IF key = None THEN Raise("TypeError")
    ELSE Execute(<<Tok("ZCARD"), key>>, "none")

\* Variant: the range test is "min >= max".
zcount_RejectsEqual(key, min, max, include_min, include_max) ==
    IF key = None THEN Raise("TypeError")
    ELSE IF ~IsIntOrFloat(min) THEN Raise("TypeError")
    ELSE IF ~IsIntOrFloat(max) THEN Raise("TypeError")
    ELSE IF PyGt(min, max) \/ min = max THEN Raise("ValueError")
    ELSE LET emin == ScoreBound(min, include_min)
             emax == ScoreBound(max, include_max)
         IN  IF emin.t = "error" THEN Raise(emin.s[1])
             ELSE IF emax.t = "error" THEN Raise(emax.s[1])
             ELSE Execute(<<Tok("ZCOUNT"), key, emin, emax>>, "none")

\* Variant: the range test is left out, as in the other score-range methods.
zcount_NoRangeCheck(key, min, max, include_min, include_max) ==
    IF key = None THEN Raise("TypeError")
    ELSE IF ~IsIntOrFloat(min) THEN Raise("TypeError")
    ELSE IF ~IsIntOrFloat(max) THEN Raise("TypeError")
    ELSE LET emin == ScoreBound(min, include_min)
             emax == ScoreBound(max, include_max)
         IN  IF emin.t = "error" THEN Raise(emin.s[1])
             ELSE IF emax.t = "error" THEN Raise(emax.s[1])
             ELSE Execute(<<Tok("ZCOUNT"), key, emin, emax>>, "none")

zcount(key, min, max, include_min, include_max) ==
    IF key = None THEN Raise("TypeError")
    ELSE IF ~IsIntOrFloat(min) THEN Raise("TypeError")
    ELSE IF ~IsIntOrFloat(max) THEN Raise("TypeError")
    ELSE IF PyGt(min, max) THEN Raise("ValueError")
    ELSE LET emin == ScoreBound(min, include_min)
             emax == ScoreBound(max, include_max)
         IN  IF emin.t = "error" THEN Raise(emin.s[1])
             ELSE IF emax.t = "error" THEN Raise(emax.s[1])
             ELSE Execute(<<Tok("ZCOUNT"), key, emin, emax>>, "none")

zincrby(key, increment, member) ==
    IF key = None THEN Raise("TypeError")
    ELSE IF ~IsIntOrFloat(increment) THEN Raise("TypeError")
    ELSE Execute(<<Tok("ZINCRBY"), key, increment, member>>, "int_or_float")

zinterstore(destkey, numkeys, key, keys) == Raise("NotImplementedError")

zlexcount(key, min, max, include_min, include_max) ==
    IF key = None THEN Raise("TypeError")
    ELSE IF ~IsBytes(min) THEN Raise("TypeError")
    ELSE IF ~IsBytes(max) THEN Raise("TypeError")
    ELSE Execute(<<Tok("ZLEXCOUNT"), key, LexMin(min, include_min),
                   LexMax(max, include_max)>>, "none")

zrange(key, start, stop, withscores) ==
    IF key = None THEN Raise("TypeError")
    ELSE IF ~IsInt(start) THEN Raise("TypeError")
    ELSE IF ~IsInt(stop) THEN Raise("TypeError")
    ELSE Execute(<<Tok("ZRANGE"), key, start, stop>> \o WithScoresArgs(withscores),
                 IF withscores THEN "pairs_int_or_float" ELSE "none")

\* Variant: only a missing count is noticed, not a missing offset.
LimitHalfGiven_OneWay(offset, count) == offset # None /\ count = None

\* "(offset is not None and count is None) or (count is not None and offset is None)"
LimitHalfGiven(offset, count) ==
    \/ offset # None /\ count = None
    \/ count # None /\ offset = None

\* Variant: offset and count are validated after the command was handed
\* to the executor.
zrangebylex_ValidatesLate(key, min, max, include_min, include_max, offset, count) ==
    IF key = None THEN Raise("TypeError")
    ELSE IF ~IsBytes(min) THEN Raise("TypeError")
    ELSE IF ~IsBytes(max) THEN Raise("TypeError")
    ELSE LET r == Execute(<<Tok("ZRANGEBYLEX"), key, LexMin(min, include_min),
                            LexMax(max, include_max)>> \o LimitArgs(offset, count),
                          "none")
         IN  IF \/ LimitHalfGiven(offset, count)
                \/ offset # None /\ ~IsInt(offset)
                \/ count # None /\ ~IsInt(count)
             THEN [r EXCEPT !.outcome = "TypeError"]
             ELSE r

zrangebylex(key, min, max, include_min, include_max, offset, count) ==
    IF key = None THEN Raise("TypeError")
    ELSE IF ~IsBytes(min) THEN Raise("TypeError")
    ELSE IF ~IsBytes(max) THEN Raise("TypeError")
    ELSE IF LimitHalfGiven(offset, count) THEN Raise("TypeError")
    ELSE IF offset # None /\ ~IsInt(offset) THEN Raise("TypeError")
    ELSE IF count # None /\ ~IsInt(count) THEN Raise("TypeError")
    ELSE Execute(<<Tok("ZRANGEBYLEX"), key, LexMin(min, include_min),
                   LexMax(max, include_max)>> \o LimitArgs(offset, count), "none")

\* Variant: LIMIT is emitted before WITHSCORES.
zrangebyscore_LimitFirst(key, min, max, include_min, include_max, withscores, offset, count) ==
    IF key = None THEN Raise("TypeError")
    ELSE IF ~IsIntOrFloat(min) THEN Raise("TypeError")
    ELSE IF ~IsIntOrFloat(max) THEN Raise("TypeError")
    ELSE IF LimitHalfGiven(offset, count) THEN Raise("TypeError")
    ELSE IF offset # None /\ ~IsInt(offset) THEN Raise("TypeError")
    ELSE IF count # None /\ ~IsInt(count) THEN Raise("TypeError")
    ELSE LET emin == ScoreBound(min, include_min)
             emax == ScoreBound(max, include_max)
         IN  IF emin.t = "error" THEN Raise(emin.s[1])
             ELSE IF emax.t = "error" THEN Raise(emax.s[1])
             ELSE Execute(<<Tok("ZRANGEBYSCORE"), key, emin, emax>>
                            \o LimitArgs(offset, count) \o WithScoresArgs(withscores),
                          IF withscores THEN "pairs_int_or_float" ELSE "none")

zrangebyscore(key, min, max, include_min, include_max, withscores, offset, count) ==
    IF key = None THEN Raise("TypeError")
    ELSE IF ~IsIntOrFloat(min) THEN Raise("TypeError")
    ELSE IF ~IsIntOrFloat(max) THEN Raise("TypeError")
    ELSE IF LimitHalfGiven(offset, count) THEN Raise("TypeError")
    ELSE IF offset # None /\ ~IsInt(offset) THEN Raise("TypeError")
    ELSE IF count # None /\ ~IsInt(count) THEN Raise("TypeError")
    ELSE LET emin == ScoreBound(min, include_min)
             emax == ScoreBound(max, include_max)
         IN  IF emin.t = "error" THEN Raise(emin.s[1])
             ELSE IF emax.t = "error" THEN Raise(emax.s[1])
             ELSE Execute(<<Tok("ZRANGEBYSCORE"), key, emin, emax>>
                            \o WithScoresArgs(withscores) \o LimitArgs(offset, count),
                          IF withscores THEN "pairs_int_or_float" ELSE "none")

zrank(key, member) ==
    IF key = None THEN Raise("TypeError")
    ELSE Execute(<<Tok("ZRANK"), key, member>>, "none")

zrem(key, member, members) ==
    IF key = None THEN Raise("TypeError")
    ELSE Execute(<<Tok("ZREM"), key, member>> \o members, "none")

zremrangebylex(key, min, max, include_min, include_max) ==
    IF key = None THEN Raise("TypeError")
    ELSE IF ~IsBytes(min) THEN Raise("TypeError")
    ELSE IF ~IsBytes(max) THEN Raise("TypeError")
    ELSE Execute(<<Tok("ZREMRANGEBYLEX"), key, LexMin(min, include_min),
                   LexMax(max, include_max)>>, "none")

zremrangebyrank(key, start, stop) ==
    IF key = None THEN Raise("TypeError")
    ELSE IF ~IsInt(start) THEN Raise("TypeError")
    ELSE IF ~IsInt(stop) THEN Raise("TypeError")
    ELSE Execute(<<Tok("ZREMRANGEBYRANK"), key, start, stop>>, "none")

zremrangebyscore(key, min, max, include_min, include_max) ==
    IF key = None THEN Raise("TypeError")
    ELSE IF ~IsIntOrFloat(min) THEN Raise("TypeError")
    ELSE IF ~IsIntOrFloat(max) THEN Raise("TypeError")
    ELSE LET emin == ScoreBound(min, include_min)
             emax == ScoreBound(max, include_max)
         IN  IF emin.t = "error" THEN Raise(emin.s[1])
             ELSE IF emax.t = "error" THEN Raise(emax.s[1])
             ELSE Execute(<<Tok("ZREMRANGEBYSCORE"), key, emin, emax>>, "none")

zrevrange(key, start, stop, withscores) ==
    IF key = None THEN Raise("TypeError")
    ELSE IF ~IsInt(start) THEN Raise("TypeError")
    ELSE IF ~IsInt(stop) THEN Raise("TypeError")
    ELSE Execute(<<Tok("ZREVRANGE"), key, start, stop>> \o WithScoresArgs(withscores),
                 IF withscores THEN "pairs_int_or_float" ELSE "none")

\* Variant: the bounds are sent in the order of the signature, max first.
zrevrangebyscore_MaxFirst(key, max, min, include_min, include_max, withscores, offset, count) ==
    IF key = None THEN Raise("TypeError")
    ELSE IF ~IsIntOrFloat(min) THEN Raise("TypeError")
    ELSE IF ~IsIntOrFloat(max) THEN Raise("TypeError")
    ELSE IF LimitHalfGiven(offset, count) THEN Raise("TypeError")
    ELSE IF offset # None /\ ~IsInt(offset) THEN Raise("TypeError")
    ELSE IF count # None /\ ~IsInt(count) THEN Raise("TypeError")
    ELSE LET emin == ScoreBound(min, include_min)
             emax == ScoreBound(max, include_max)
         IN  IF emin.t = "error" THEN Raise(emin.s[1])
             ELSE IF emax.t = "error" THEN Raise(emax.s[1])
             ELSE Execute(<<Tok("ZREVRANGEBYSCORE"), key, emax, emin>>
                            \o WithScoresArgs(withscores) \o LimitArgs(offset, count),
                          IF withscores THEN "pairs_int_or_float" ELSE "none")

\* the signature takes max before min
zrevrangebyscore(key, max, min, include_min, include_max, withscores, offset, count) ==
    IF key = None THEN Raise("TypeError")
    ELSE IF ~IsIntOrFloat(min) THEN Raise("TypeError")
    ELSE IF ~IsIntOrFloat(max) THEN Raise("TypeError")
    ELSE IF LimitHalfGiven(offset, count) THEN Raise("TypeError")
    ELSE IF offset # None /\ ~IsInt(offset) THEN Raise("TypeError")
    ELSE IF count # None /\ ~IsInt(count) THEN Raise("TypeError")
    ELSE LET emin == ScoreBound(min, include_min)
             emax == ScoreBound(max, include_max)
         IN  IF emin.t = "error" THEN Raise(emin.s[1])
             ELSE IF emax.t = "error" THEN Raise(emax.s[1])
             ELSE Execute(<<Tok("ZREVRANGEBYSCORE"), key, emin, emax>>
                            \o WithScoresArgs(withscores) \o LimitArgs(offset, count),
                          IF withscores THEN "pairs_int_or_float" ELSE "none")

zrevrank(key, member) ==
    IF key = None THEN Raise("TypeError")
    ELSE Execute(<<Tok("ZREVRANK"), key, member>>, "none")

zscore(key, member) ==
    IF key = None THEN Raise("TypeError")
    ELSE Execute(<<Tok("ZSCORE"), key, member>>, "int_or_float")

\* Variant: the key is validated first, as in every other method.
zunionstore_ChecksKey(destkey, numkeys, key, keys) ==
    IF key = None THEN Raise("TypeError") ELSE Raise("NotImplementedError")

zunionstore(destkey, numkeys, key, keys) == Raise("NotImplementedError")

zscan(key, cursor, match, count) ==
    IF key = None THEN Raise("TypeError")
    ELSE Execute(<<Tok("ZSCAN"), key, cursor>>
                   \o (IF match # None THEN <<Tok("MATCH"), match>> ELSE <<>>)
                   \o (IF count # None THEN <<Tok("COUNT"), count>> ELSE <<>>),
                 "zscan")

---------------------------------------------------------------------------
(* Reply converters. *)

IsDigit(c) == \E i \in 1..10 : Digits[i] = c
DigitVal(c) == (CHOOSE i \in 1..10 : Digits[i] = c) - 1

RECURSIVE NatVal(_)
NatVal(s) ==
    IF s = <<>> THEN 0
    ELSE 10 * NatVal(SubSeq(s, 1, Len(s) - 1)) + DigitVal(s[Len(s)])

AllDigits(s) == s # <<>> /\ \A i \in 1..Len(s) : IsDigit(s[i])
HasSign(s) == s # <<>> /\ s[1] \in {"-", "+"}
Unsigned(s) == IF HasSign(s) THEN Tail(s) ELSE s
Signed(s, n) == IF s # <<>> /\ s[1] = "-" THEN -n ELSE n

\* int(value) succeeds: an optional sign and decimal digits
IsIntLiteral(s) == AllDigits(Unsigned(s))

\* float(value) succeeds on digits, a point and one more digit; the model's
\* floats carry one decimal place, and its replies hold no other float text
IsFloatLiteral(s) ==
    LET u == Unsigned(s)
    IN  /\ Len(u) >= 3
        /\ u[Len(u) - 1] = "."
        /\ IsDigit(u[Len(u)])
        /\ AllDigits(SubSeq(u, 1, Len(u) - 2))

FloatTenths(s) ==
    LET u == Unsigned(s)
    IN  Signed(s, 10 * NatVal(SubSeq(u, 1, Len(u) - 2)) + DigitVal(u[Len(u)]))

int_or_float(value) ==
    IF ~IsBytes(value) THEN Raised("AssertionError")
    ELSE IF IsIntLiteral(value.s) THEN PyInt(Signed(value.s, NatVal(Unsigned(value.s))))
    ELSE IF IsFloatLiteral(value.s) THEN PyFloat(FloatTenths(value.s))
    ELSE Raised("ValueError")

\* [val, int_or_float(score)] for val, score in zip(it, it), concatenated:
\* consecutive items are paired and a trailing unpaired item is dropped
RECURSIVE ZipPairs(_, _)
ZipPairs(items, i) ==
    IF i + 1 > Len(items) THEN <<>>
    ELSE <<items[i], int_or_float(items[i + 1])>> \o ZipPairs(items, i + 2)

FirstError(items) ==
    LET bad == {i \in 1..Len(items) : items[i].t = "error"}
    IN  IF bad = {} THEN None
        ELSE items[CHOOSE i \in bad : \A j \in bad : i <= j]

\* Variant: zip(it, it) is replaced by pairing each item with its successor,
\* so that every item but the first is read as a score as well.
RECURSIVE SlidingPairs(_, _)
SlidingPairs(items, i) ==
    IF i + 1 > Len(items) THEN <<>>
    ELSE <<items[i], int_or_float(items[i + 1])>> \o SlidingPairs(items, i + 1)

pairs_int_or_float_Sliding(value) ==
    LET out == SlidingPairs(value.items, 1)
    IN  IF FirstError(out) # None THEN FirstError(out) ELSE PyList(out)

pairs_int_or_float(value) ==
    LET out == ZipPairs(value.items, 1)
    IN  IF FirstError(out) # None THEN FirstError(out) ELSE PyList(out)

\* zscan's "_converter": (int(obj[0]), pairs_int_or_float(obj[1]))
ZscanConverter(obj) ==
    LET cursor == obj.items[1]
        page == pairs_int_or_float(obj.items[2])
    IN  IF ~IsBytes(cursor) \/ ~IsIntLiteral(cursor.s) THEN Raised("ValueError")
        ELSE IF page.t = "error" THEN page
        ELSE PyTuple(<<PyInt(Signed(cursor.s, NatVal(Unsigned(cursor.s)))), page>>)

\* wait_convert(fut, converter): the future's reply, converted
Convert(conv, raw) ==
    CASE conv = "int_or_float" -> int_or_float(raw)
      [] conv = "pairs_int_or_float" -> pairs_int_or_float(raw)
      [] conv = "zscan" -> ZscanConverter(raw)
      [] OTHER -> raw

---------------------------------------------------------------------------
(* The arguments callers pass and the replies the server sends. *)

BytesA == Bytes(<<"a">>)
BytesB == Bytes(<<"b">>)

Keys == {None, Bytes(<<"k">>)}
Scores == {PyInt(1), PyInt(5), PyFloat(15), PyBool(TRUE), BigInt,
           PosInf, NegInf, NaN, BytesA}
LexBounds == {Bytes(<<"-">>), Bytes(<<"+">>), BytesA, PyInt(1)}
Offsets == {None, PyInt(0), BytesA}
Counts == {None, PyInt(2), BytesA}
Indexes == {PyInt(0), PyInt(-1), PyFloat(15)}
Members == {BytesA}
VarArgItems == {PyInt(5), BytesB}

SeqsUpTo(S, n) == UNION {[1..k -> S] : k \in 0..n}

VarArgs == SeqsUpTo(VarArgItems, MaxVarArgs)

\* what a list reply may hold: members, score texts, and an integer
ReplyItems == {BytesA, BytesB, Bytes(<<"1">>), Bytes(<<"2">>),
               Bytes(<<"1", ".", "5">>), PyInt(7)}
ScalarReplies == {Bytes(<<"1", "0">>), Bytes(<<"1", "0", ".", "5">>),
                  Bytes(<<"-", "3">>), Bytes(<<"x">>), PyInt(3), None}
ListReplies == {PyList(s) : s \in SeqsUpTo(ReplyItems, MaxReplyLen)}
ScanReplies ==
    {PyList(<<c, PyList(s)>>) :
        c \in {Bytes(<<"0">>), Bytes(<<"1", "7">>)},
        s \in SeqsUpTo({BytesA, Bytes(<<"1">>)}, 2)}

Replies(conv) ==
    CASE conv = "int_or_float" -> ScalarReplies
      [] conv = "pairs_int_or_float" -> ListReplies
      [] conv = "zscan" -> ScanReplies
      [] OTHER -> {PyInt(3), None, PyList(<<BytesA, BytesB>>)}

---------------------------------------------------------------------------
(* State.                                                                  *)
(*   pc       where the caller is: "idle", "returned" from a method call,  *)
(*            or "resolved" after awaiting the oldest future               *)
(*   call     the method last called and its arguments                     *)
(*   outcome  "pending" if the call returned a future, else the exception  *)
(*   sent     the commands the call handed to _conn.execute                *)
(*   futures  converters of the futures in flight, oldest first            *)
(*   reply    the raw reply of the future last resolved and what the       *)
(*            awaiting caller received                                     *)

NoCall ==
    [op |-> "none", key |-> None, min |-> None, max |-> None,
     include_min |-> TRUE, include_max |-> TRUE, withscores |-> FALSE,
     offset |-> None, count |-> None, start |-> None, stop |-> None,
     score |-> None, member |-> None, rest |-> <<>>]

NoReply == [conv |-> "none", raw |-> None, value |-> None]

Init ==
    /\ pc = "idle"
    /\ call = NoCall
    /\ outcome = "none"
    /\ sent = <<>>
    /\ futures = <<>>
    /\ reply = NoReply

\* The caller is between calls and may leave one more future un-awaited.
CanCall == pc = "idle" /\ Len(futures) < MaxInflight

\* A method call: r is what the method did.
Invoke(args, r) ==
    /\ pc' = "returned"
    /\ call' = args
    /\ outcome' = r.outcome
    /\ sent' = r.sent
    /\ futures' = futures \o [i \in 1..Len(r.sent) |-> r.conv]
    /\ reply' = NoReply

Zadd ==
    /\ CanCall
    /\ \E key \in Keys, score \in Scores, member \in Members, pairs \in VarArgs :
        Invoke([NoCall EXCEPT !.op = "zadd", !.key = key, !.score = score,
                              !.member = member, !.rest = pairs],
               zadd(key, score, member, pairs))

Zcard ==
    /\ CanCall
    /\ \E key \in Keys :
        Invoke([NoCall EXCEPT !.op = "zcard", !.key = key], zcard(key))

Zcount ==
    /\ CanCall
    /\ \E key \in Keys, min \in Scores, max \in Scores,
       include_min \in BOOLEAN, include_max \in BOOLEAN :
        Invoke([NoCall EXCEPT !.op = "zcount", !.key = key, !.min = min, !.max = max,
                              !.include_min = include_min, !.include_max = include_max],
               zcount(key, min, max, include_min, include_max))

Zincrby ==
    /\ CanCall
    /\ \E key \in Keys, increment \in Scores, member \in Members :
        Invoke([NoCall EXCEPT !.op = "zincrby", !.key = key, !.score = increment,
                              !.member = member],
               zincrby(key, increment, member))

Zinterstore ==
    /\ CanCall
    /\ \E destkey \in Keys, key \in Keys, keys \in VarArgs :
        Invoke([NoCall EXCEPT !.op = "zinterstore", !.key = key, !.member = destkey,
                              !.count = PyInt(1 + Len(keys)), !.rest = keys],
               zinterstore(destkey, PyInt(1 + Len(keys)), key, keys))

Zlexcount ==
    /\ CanCall
    /\ \E key \in Keys, min \in LexBounds, max \in LexBounds,
       include_min \in BOOLEAN, include_max \in BOOLEAN :
        Invoke([NoCall EXCEPT !.op = "zlexcount", !.key = key, !.min = min, !.max = max,
                              !.include_min = include_min, !.include_max = include_max],
               zlexcount(key, min, max, include_min, include_max))

Zrange ==
    /\ CanCall
    /\ \E key \in Keys, start \in Indexes, stop \in Indexes, withscores \in BOOLEAN :
        Invoke([NoCall EXCEPT !.op = "zrange", !.key = key, !.start = start,
                              !.stop = stop, !.withscores = withscores],
               zrange(key, start, stop, withscores))

Zrangebylex ==
    /\ CanCall
    /\ \E key \in Keys, min \in LexBounds, max \in LexBounds,
       include_min \in BOOLEAN, include_max \in BOOLEAN,
       offset \in Offsets, count \in Counts :
        Invoke([NoCall EXCEPT !.op = "zrangebylex", !.key = key, !.min = min,
                              !.max = max, !.include_min = include_min,
                              !.include_max = include_max,
                              !.offset = offset, !.count = count],
               zrangebylex(key, min, max, include_min, include_max, offset, count))

Zrangebyscore ==
    /\ CanCall
    /\ \E key \in Keys, min \in Scores, max \in Scores,
       include_min \in BOOLEAN, include_max \in BOOLEAN, withscores \in BOOLEAN,
       offset \in Offsets, count \in Counts :
        Invoke([NoCall EXCEPT !.op = "zrangebyscore", !.key = key, !.min = min,
                              !.max = max, !.include_min = include_min,
                              !.include_max = include_max, !.withscores = withscores,
                              !.offset = offset, !.count = count],
               zrangebyscore(key, min, max, include_min, include_max, withscores,
                             offset, count))

Zrank ==
    /\ CanCall
    /\ \E key \in Keys, member \in Members :
        Invoke([NoCall EXCEPT !.op = "zrank", !.key = key, !.member = member],
               zrank(key, member))

Zrem ==
    /\ CanCall
    /\ \E key \in Keys, member \in Members, members \in VarArgs :
        Invoke([NoCall EXCEPT !.op = "zrem", !.key = key, !.member = member,
                              !.rest = members],
               zrem(key, member, members))

Zremrangebylex ==
    /\ CanCall
    /\ \E key \in Keys, min \in LexBounds, max \in LexBounds,
       include_min \in BOOLEAN, include_max \in BOOLEAN :
        Invoke([NoCall EXCEPT !.op = "zremrangebylex", !.key = key, !.min = min,
                              !.max = max, !.include_min = include_min,
                              !.include_max = include_max],
               zremrangebylex(key, min, max, include_min, include_max))

Zremrangebyrank ==
    /\ CanCall
    /\ \E key \in Keys, start \in Indexes, stop \in Indexes :
        Invoke([NoCall EXCEPT !.op = "zremrangebyrank", !.key = key, !.start = start,
                              !.stop = stop],
               zremrangebyrank(key, start, stop))

Zremrangebyscore ==
    /\ CanCall
    /\ \E key \in Keys, min \in Scores, max \in Scores,
       include_min \in BOOLEAN, include_max \in BOOLEAN :
        Invoke([NoCall EXCEPT !.op = "zremrangebyscore", !.key = key, !.min = min,
                              !.max = max, !.include_min = include_min,
                              !.include_max = include_max],
               zremrangebyscore(key, min, max, include_min, include_max))

Zrevrange ==
    /\ CanCall
    /\ \E key \in Keys, start \in Indexes, stop \in Indexes, withscores \in BOOLEAN :
        Invoke([NoCall EXCEPT !.op = "zrevrange", !.key = key, !.start = start,
                              !.stop = stop, !.withscores = withscores],
               zrevrange(key, start, stop, withscores))

Zrevrangebyscore ==
    /\ CanCall
    /\ \E key \in Keys, max \in Scores, min \in Scores,
       include_min \in BOOLEAN, include_max \in BOOLEAN, withscores \in BOOLEAN,
       offset \in Offsets, count \in Counts :
        Invoke([NoCall EXCEPT !.op = "zrevrangebyscore", !.key = key, !.min = min,
                              !.max = max, !.include_min = include_min,
                              !.include_max = include_max, !.withscores = withscores,
                              !.offset = offset, !.count = count],
               zrevrangebyscore(key, max, min, include_min, include_max, withscores,
                                offset, count))

Zrevrank ==
    /\ CanCall
    /\ \E key \in Keys, member \in Members :
        Invoke([NoCall EXCEPT !.op = "zrevrank", !.key = key, !.member = member],
               zrevrank(key, member))

Zscore ==
    /\ CanCall
    /\ \E key \in Keys, member \in Members :
        Invoke([NoCall EXCEPT !.op = "zscore", !.key = key, !.member = member],
               zscore(key, member))

Zunionstore ==
    /\ CanCall
    /\ \E destkey \in Keys, key \in Keys, keys \in VarArgs :
        Invoke([NoCall EXCEPT !.op = "zunionstore", !.key = key, !.member = destkey,
                              !.count = PyInt(1 + Len(keys)), !.rest = keys],
               zunionstore(destkey, PyInt(1 + Len(keys)), key, keys))

Zscan ==
    /\ CanCall
    /\ \E key \in Keys, cursor \in {PyInt(0)}, match \in {None, BytesA},
       count \in {None, PyInt(2)} :
        Invoke([NoCall EXCEPT !.op = "zscan", !.key = key, !.start = cursor,
                              !.member = match, !.count = count],
               zscan(key, cursor, match, count))

\* The executor resolves the oldest future; the awaiting caller receives
\* the reply as converted by the converter wait_convert attached to it.
Resolve ==
    /\ pc = "idle"
    /\ futures # <<>>
    /\ \E raw \in Replies(Head(futures)) :
          reply' = [conv |-> Head(futures), raw |-> raw,
                    value |-> Convert(Head(futures), raw)]
    /\ futures' = Tail(futures)
    /\ pc' = "resolved"
    /\ UNCHANGED <<call, outcome, sent>>

\* The caller takes the result (a future, a value or an exception) and
\* goes on to its next call.
Continue ==
    /\ pc \in {"returned", "resolved"}
    /\ pc' = "idle"
    /\ call' = NoCall
    /\ outcome' = "none"
    /\ sent' = <<>>
    /\ reply' = NoReply
    /\ UNCHANGED futures

Next ==
    \/ Zadd \/ Zcard \/ Zcount \/ Zincrby \/ Zinterstore \/ Zlexcount
    \/ Zrange \/ Zrangebylex \/ Zrangebyscore \/ Zrank \/ Zrem
    \/ Zremrangebylex \/ Zremrangebyrank \/ Zremrangebyscore \/ Zrevrange
    \/ Zrevrangebyscore \/ Zrevrank \/ Zscore \/ Zunionstore \/ Zscan
    \/ Resolve \/ Continue

Spec == Init /\ [][Next]_vars

---------------------------------------------------------------------------
(* Properties. *)

Returned == pc = "returned"
Pending == Returned /\ outcome = "pending"
Cmd == sent[1]

\* a number that is neither an infinity nor a nan
IsFinite(x) == x.t \in {"int", "bool", "float", "bigint"}

LocalErrors == {"TypeError", "ValueError", "NotImplementedError"}
ScoreRangeOps == {"zcount", "zrangebyscore", "zrevrangebyscore", "zremrangebyscore"}
LexRangeOps == {"zlexcount", "zrangebylex", "zremrangebylex"}
LimitOps == {"zrangebyscore", "zrevrangebyscore", "zrangebylex"}
WithScoresOps == {"zrange", "zrevrange", "zrangebyscore", "zrevrangebyscore"}

CommandToken(op) ==
    CASE op = "zrangebyscore" -> Tok("ZRANGEBYSCORE")
      [] op = "zrevrangebyscore" -> Tok("ZREVRANGEBYSCORE")
      [] op = "zrangebylex" -> Tok("ZRANGEBYLEX")
      [] OTHER -> None

\* C1: a call hands the executor no command or exactly one: none when it
\* fails with a local error, exactly one when it returns a pending result;
\* no call raises after having dispatched.
C1_ZeroOrOneCommand ==
    Returned =>
        /\ Len(sent) <= 1
        /\ (outcome \in LocalErrors => sent = <<>>)
        /\ (outcome = "pending" => Len(sent) = 1)
        /\ (outcome # "pending" => sent = <<>>)

\* zrangebylex fails on a half-given offset/count, after it encoded its bounds
C1_Witness ==
    /\ Returned
    /\ call.op = "zrangebylex"
    /\ call.key # None /\ IsBytes(call.min) /\ IsBytes(call.max)
    /\ call.offset # None /\ call.count = None
    /\ outcome = "TypeError"

\* The other arguments of a LIMIT-taking call are valid: a key, bounds of the
\* right type (and no exclusive bound too large for math.isinf), and offset
\* and count each None or an int.
OtherwiseValid ==
    /\ call.key # None
    /\ call.offset = None \/ IsInt(call.offset)
    /\ call.count = None \/ IsInt(call.count)
    /\ IF call.op = "zrangebylex"
       THEN IsBytes(call.min) /\ IsBytes(call.max)
       ELSE /\ IsIntOrFloat(call.min) /\ IsIntOrFloat(call.max)
            /\ ~(call.min = BigInt /\ ~call.include_min)
            /\ ~(call.max = BigInt /\ ~call.include_max)

HasLimit(cmd) == \E i \in 1..Len(cmd) : cmd[i] = Tok("LIMIT")

C3_ZcountRejectsInvertedRange ==
    (Returned /\ call.op = "zcount" /\ call.key # None
       /\ IsIntOrFloat(call.min) /\ IsIntOrFloat(call.max)) =>
        /\ (outcome = "ValueError") <=> PyGt(call.min, call.max)
        /\ (outcome = "ValueError") => sent = <<>>
        /\ (call.min = PyInt(5) /\ call.max = PyInt(1)) => outcome = "ValueError"
        /\ (call.min = PosInf /\ call.max = NegInf) => outcome = "ValueError"
        /\ (call.min = call.max) => outcome # "ValueError"

\* zcount(key, min=5, max=1), both bounds exclusive
C3_Witness ==
    /\ Returned
    /\ call.op = "zcount"
    /\ call.key # None
    /\ call.min = PyInt(5) /\ call.max = PyInt(1)
    /\ ~call.include_min /\ ~call.include_max
    /\ outcome = "ValueError"

\* C4 (as claimed): no ZCOUNT, ZRANGEBYSCORE, ZREVRANGEBYSCORE or
\* ZREMRANGEBYSCORE command that reaches the executor carries a finite min
\* greater than its finite max.
C4_NoInvertedRangeDispatched ==
    (Returned /\ call.op \in ScoreRangeOps /\ sent # <<>>
       /\ IsFinite(call.min) /\ IsFinite(call.max)) =>
        ~PyGt(call.min, call.max)

\* C4 (amended): no ZCOUNT command that reaches the executor carries a min
\* greater than its max; zcount is the only method that compares them.
C4_NoInvertedZcountDispatched ==
    (Returned /\ call.op = "zcount" /\ sent # <<>>) =>
        /\ ~PyGt(call.min, call.max)
        /\ Cmd[1] = Tok("ZCOUNT")

\* a ZCOUNT with finite bounds reaches the executor
C4_Witness ==
    /\ Pending
    /\ call.op = "zcount"
    /\ call.min = PyInt(1) /\ call.max = PyInt(5)
    /\ Len(sent) = 1

\* How the claims say a score bound goes on the wire.
WireScoreBound(w, v, include) ==
    /\ IsInf(v) => w = v
    /\ (IsFinite(v) /\ include) => w = v
    /\ (IsFinite(v) /\ ~include) => w = Bytes(<<"(">> \o PyStr(v))
    /\ (v = PyInt(5) /\ ~include) => w = Bytes(<<"(", "5">>)
    /\ (v = PyFloat(15) /\ ~include) => w = Bytes(<<"(", "1", ".", "5">>)

\* C5: in the four score-range methods each bound is encoded from its own
\* value and include flag: finite and exclusive as "(" followed by str(value),
\* finite and inclusive as the value itself, infinite as the value itself
\* whatever the flag.
C5_ScoreBoundEncoding ==
    (Pending /\ call.op \in ScoreRangeOps) =>
        /\ Len(Cmd) >= 4
        /\ WireScoreBound(Cmd[3], call.min, call.include_min)
        /\ WireScoreBound(Cmd[4], call.max, call.include_max)

\* an exclusive -inf next to an exclusive finite float
C5_Witness ==
    /\ Pending
    /\ call.op = "zremrangebyscore"
    /\ call.min = NegInf /\ ~call.include_min
    /\ call.max = PyFloat(15) /\ ~call.include_max

\* How C6 says a lexicographic bound goes on the wire.
WireLexBound(w, v, include) ==
    IF v \in {Bytes(<<"-">>), Bytes(<<"+">>)} THEN w = v
    ELSE w = Bytes((IF include THEN <<"[">> ELSE <<"(">>) \o v.s)

\* C6: in zlexcount, zrangebylex and zremrangebylex a bound b'-' or b'+' is
\* passed on unchanged in either position and whatever its flag; any other
\* bound is prefixed with "[" when inclusive and "(" when exclusive.
C6_LexSentinelsEitherPosition ==
    (Pending /\ call.op \in LexRangeOps) =>
        /\ WireLexBound(Cmd[3], call.min, call.include_min)
        /\ WireLexBound(Cmd[4], call.max, call.include_max)

\* C7: zunionstore and zinterstore fail with NotImplementedError whatever
\* their arguments, a None key or destkey included, and dispatch nothing.
C7_StoreOpsNotImplemented ==
    (Returned /\ call.op \in {"zunionstore", "zinterstore"}) =>
        (outcome = "NotImplementedError" /\ sent = <<>>)

\* zunionstore with key None
C7_Witness ==
    /\ Returned
    /\ call.op = "zunionstore"
    /\ call.key = None
    /\ outcome = "NotImplementedError"

\* w is v itself or v behind a one-character range prefix
IsEncodingOf(w, v) ==
    \/ w = v
    \/ IsIntOrFloat(v) /\ w = Bytes(<<"(">> \o PyStr(v))
    \/ IsBytes(v) /\ w \in {Bytes(<<"[">> \o v.s), Bytes(<<"(">> \o v.s)}

Modifiers ==
    (IF call.withscores THEN <<Tok("WITHSCORES")>> ELSE <<>>)
    \o (IF call.offset # None /\ call.count # None
        THEN <<Tok("LIMIT"), call.offset, call.count>> ELSE <<>>)

\* C8: a command of zrangebyscore, zrevrangebyscore or zrangebylex is the
\* command token, the key, the encoded min, the encoded max, then WITHSCORES
\* if and only if withscores, then LIMIT offset count if and only if both
\* are given, and nothing else.
C8_ArgumentOrder ==
    (Pending /\ call.op \in LimitOps) =>
        /\ Len(Cmd) >= 4
        /\ Cmd[1] = CommandToken(call.op)
        /\ Cmd[2] = call.key
        /\ IsEncodingOf(Cmd[3], call.min)
        /\ IsEncodingOf(Cmd[4], call.max)
        /\ SubSeq(Cmd, 5, Len(Cmd)) = Modifiers

\* WITHSCORES and LIMIT together
C8_Witness ==
    /\ Pending
    /\ call.op = "zrangebyscore"
    /\ call.withscores
    /\ call.offset = PyInt(0) /\ call.count = PyInt(2)
    /\ call.min = PyInt(1) /\ call.max = PyInt(5)
    /\ Len(Cmd) = 8

IsNumericText(x) == IsBytes(x) /\ (IsIntLiteral(x.s) \/ IsFloatLiteral(x.s))

\* a paired reply: an even number of items, every second one a numeric text
IsPairedReply(raw) ==
    /\ raw.t = "list"
    /\ Len(raw.items) % 2 = 0
    /\ \A i \in 1..Len(raw.items) : i % 2 = 0 => IsNumericText(raw.items[i])

\* C9: zrange, zrevrange, zrangebyscore and zrevrangebyscore with withscores
\* attach pairs_int_or_float to their future, and a paired reply decodes to
\* a list of the same length in which each member is unchanged in place and
\* each score is its number: an int for an integer literal, else a float.
C9_PairedReplyDecoding ==
    /\ (Pending /\ call.op \in WithScoresOps /\ call.withscores) =>
          futures[Len(futures)] = "pairs_int_or_float"
    /\ (pc = "resolved" /\ reply.conv = "pairs_int_or_float"
          /\ IsPairedReply(reply.raw)) =>
          LET in == reply.raw.items
              out == reply.value.items
          IN  /\ reply.value.t = "list"
              /\ Len(out) = Len(in)
              /\ \A i \in 1..Len(in) :
                    IF i % 2 = 1 THEN out[i] = in[i]
                    ELSE /\ out[i].t = (IF IsIntLiteral(in[i].s) THEN "int" ELSE "float")
                         /\ in[i] = Bytes(<<"1">>) => out[i] = PyInt(1)
                         /\ in[i] = Bytes(<<"2">>) => out[i] = PyInt(2)
                         /\ in[i] = Bytes(<<"1", ".", "5">>) => out[i] = PyFloat(15)

\* the reply [b"a", b"1", b"b", b"2"] decoded to [b"a", 1, b"b", 2]
C9_Witness ==
    /\ pc = "resolved"
    /\ reply.conv = "pairs_int_or_float"
    /\ reply.raw = PyList(<<BytesA, Bytes(<<"1">>), BytesB, Bytes(<<"2">>)>>)
    /\ reply.value = PyList(<<BytesA, PyInt(1), BytesB, PyInt(2)>>)

\* C10: zrevrangebyscore sends key, encoded min, encoded max in that order,
\* and for the same key, min, max, flags, offset and count behaves as
\* zrangebyscore does, the command token apart.
C10_RevSameWirePositions ==
    (Returned /\ call.op = "zrevrangebyscore") =>
        LET fwd == zrangebyscore(call.key, call.min, call.max, call.include_min,
                                 call.include_max, call.withscores,
                                 call.offset, call.count)
        IN  /\ outcome = fwd.outcome
            /\ Len(sent) = Len(fwd.sent)
            /\ outcome = "pending" =>
                  /\ Cmd[1] = Tok("ZREVRANGEBYSCORE")
                  /\ fwd.sent[1][1] = Tok("ZRANGEBYSCORE")
                  /\ Tail(Cmd) = Tail(fwd.sent[1])
                  /\ WireScoreBound(Cmd[3], call.min, call.include_min)
                  /\ WireScoreBound(Cmd[4], call.max, call.include_max)
                  /\ IsEncodingOf(Cmd[3], call.min)
                  /\ IsEncodingOf(Cmd[4], call.max)

\* min=1 exclusive and max=5 inclusive go out as b"(1" and 5
C10_Witness ==
    /\ Pending
    /\ call.op = "zrevrangebyscore"
    /\ call.min = PyInt(1) /\ ~call.include_min
    /\ call.max = PyInt(5) /\ call.include_max
    /\ Cmd[3] = Bytes(<<"(", "1">>)
    /\ Cmd[4] = PyInt(5)

====
